---- MODULE Spec2Model ----
(***************************************************************************)
(* Sunscreen frontend compiler: the IR builder (Context), lowering to the  *)
(* backend circuit, the backend transform pipeline (relinearization         *)
(* insertion, pruning) and the Fractional plaintext codec.                 *)
(***************************************************************************)
EXTENDS Integers, Sequences, FiniteSets, TLC

(***************************************************************************)
(* Bounds of the model.                                                    *)
(***************************************************************************)
\* Builder calls stop once the frontend graph holds this many nodes.
MaxNodes == 4

\* Literal values offered to add_literal (u64 values; two distinct ones).
LiteralValues == {7, 8}

(***************************************************************************)
(* Graph model: petgraph StableGraph<N, E>.  nodes maps each live node id  *)
(* to its weight, edges is the edge list (parallel edges are allowed).     *)
(***************************************************************************)
EmptyGraph == [nodes |-> <<>>, edges |-> <<>>]

NodeIds(g) == DOMAIN g.nodes

SetMax(S) == CHOOSE x \in S : \A y \in S : y <= x

SetMin(S) == CHOOSE x \in S : \A y \in S : x <= y

\* StableGraph::add_node on a graph without vacant slots: the next index.
NextId(g) == IF NodeIds(g) = {} THEN 0 ELSE SetMax(NodeIds(g)) + 1

AddNode(g, w) == [g EXCEPT !.nodes = NextId(g) :> w @@ g.nodes]

AddEdge(g, a, b, w) ==
    [g EXCEPT !.edges = Append(g.edges, [from |-> a, to |-> b, role |-> w])]

EdgeSet(g) == {g.edges[i] : i \in DOMAIN g.edges}

\* Indices of the edges entering / leaving a node.
InEdges(g, v) == {i \in DOMAIN g.edges : g.edges[i].to = v}

OutEdges(g, v) == {i \in DOMAIN g.edges : g.edges[i].from = v}

\* Number of occurrences of an edge in the edge list.
EdgeCount(g, e) == Cardinality({i \in DOMAIN g.edges : g.edges[i] = e})

\* is_isomorphic_matching with node and edge weights compared by equality.
Isomorphic(g, h) ==
    /\ Cardinality(NodeIds(g)) = Cardinality(NodeIds(h))
    /\ Len(g.edges) = Len(h.edges)
    /\ \E f \in [NodeIds(g) -> NodeIds(h)] :
          /\ \A a, b \in NodeIds(g) : f[a] = f[b] => a = b
          /\ \A a \in NodeIds(g) : g.nodes[a] = h.nodes[f[a]]
          /\ \A e \in EdgeSet(g) :
                EdgeCount(g, e) =
                    EdgeCount(h, [from |-> f[e.from], to |-> f[e.to], role |-> e.role])

(***************************************************************************)
(* Frontend operations (enum Operation) and edge roles (enum OperandInfo). *)
(***************************************************************************)
Op(tag) == [tag |-> tag, val |-> 0]

LiteralOp(v) == [tag |-> "Literal", val |-> v]

BinaryTags == {"Add", "Sub", "Multiply", "RotateLeft", "RotateRight"}

(***************************************************************************)
(* Context builder operations.                                              *)
(***************************************************************************)
add_2_input_both_left(g, op, left, right) ==
    LET new_id == NextId(g)
        g1 == AddNode(g, op)
        g2 == AddEdge(g1, left, new_id, "Left")
        g3 == AddEdge(g2, right, new_id, "Left")
    IN  [graph |-> g3, ret |-> new_id]

add_2_input(g, op, left, right) ==
    LET new_id == NextId(g)
        g1 == AddNode(g, op)
        g2 == AddEdge(g1, left, new_id, "Left")
        g3 == AddEdge(g2, right, new_id, "Right")
    IN  [graph |-> g3, ret |-> new_id]

add_1_input_reversed(g, op, i) ==
    LET new_id == NextId(g)
        g1 == AddNode(g, op)
        g2 == AddEdge(g1, new_id, i, "Unary")
    IN  [graph |-> g2, ret |-> new_id]

add_1_input(g, op, i) ==
    LET new_id == NextId(g)
        g1 == AddNode(g, op)
        g2 == AddEdge(g1, i, new_id, "Unary")
    IN  [graph |-> g2, ret |-> new_id]

add_input(g) == [graph |-> AddNode(g, Op("InputCiphertext")), ret |-> NextId(g)]

add_literal_no_dedup(g, literal) ==
    [graph |-> AddNode(g, LiteralOp(literal)), ret |-> NextId(g)]

\* node_indices().filter_map(..).nth(0): the first literal node with that value.
add_literal(g, literal) ==
    LET existing == {i \in NodeIds(g) : g.nodes[i] = LiteralOp(literal)}
    IN  IF existing # {}
        THEN [graph |-> g, ret |-> SetMin(existing)]
        ELSE [graph |-> AddNode(g, LiteralOp(literal)), ret |-> NextId(g)]

(***************************************************************************)
(* Lowering: FrontendCompilation::compile maps every node and edge weight, *)
(* keeping node ids and edges (StableGraph::map).                          *)
(***************************************************************************)
BOp(tag) == [tag |-> tag, val |-> 0]

InputCiphertext(i) == [tag |-> "InputCiphertext", val |-> i]

ScalarLiteral(x) == [tag |-> "Literal", val |-> x]

LowerOp_swapped_rotate(id, n) ==
    CASE n.tag = "Add" -> BOp("Add")
      [] n.tag = "InputCiphertext" -> InputCiphertext(id)
      [] n.tag = "Literal" -> ScalarLiteral(n.val)
      [] n.tag = "Sub" -> BOp("Sub")
      [] n.tag = "Multiply" -> BOp("Multiply")
      [] n.tag = "Output" -> BOp("OutputCiphertext")
      [] n.tag = "RotateLeft" -> BOp("ShiftRight")
      [] n.tag = "RotateRight" -> BOp("ShiftRight")
      [] n.tag = "SwapRows" -> BOp("SwapRows")

\* The node closure of graph.map: id is the frontend node index.
LowerOp(id, n) ==
    CASE n.tag = "Add" -> BOp("Add")
      [] n.tag = "InputCiphertext" -> InputCiphertext(id)
      [] n.tag = "Literal" -> ScalarLiteral(n.val)
      [] n.tag = "Sub" -> BOp("Sub")
      [] n.tag = "Multiply" -> BOp("Multiply")
      [] n.tag = "Output" -> BOp("OutputCiphertext")
      [] n.tag = "RotateLeft" -> BOp("ShiftLeft")
      [] n.tag = "RotateRight" -> BOp("ShiftRight")
      [] n.tag = "SwapRows" -> BOp("SwapRows")

\* The edge closure of graph.map.
LowerEdge(e) ==
    CASE e = "Left" -> "LeftOperand"
      [] e = "Right" -> "RightOperand"
      [] e = "Unary" -> "UnaryOperand"

Lower(g) ==
    [nodes |-> [id \in NodeIds(g) |-> LowerOp(id, g.nodes[id])],
     edges |-> [i \in DOMAIN g.edges |->
                  [g.edges[i] EXCEPT !.role = LowerEdge(g.edges[i].role)]]]

(***************************************************************************)
(* Relinearization insertion (apply_insert_relinearizations).              *)
(***************************************************************************)
MultiplyNodes(g) == {v \in NodeIds(g) : g.nodes[v].tag = "Multiply"}

Rewire_drop_role(e, r) == [from |-> r, to |-> e.to, role |-> "LeftOperand"]

\* The edge (r, c, role) that replaces an original edge (m, c, role).
Rewire(e, r) == [e EXCEPT !.from = r]

RelinearizeNode_skip_terminal(g, m) ==
    LET r == NextId(g)
        FromM(e) == e.from = m
        NotFromM(e) == e.from # m
        outgoing == SelectSeq(g.edges, FromM)
        rest == SelectSeq(g.edges, NotFromM)
        moved == [i \in DOMAIN outgoing |-> Rewire(outgoing[i], r)]
    IN  IF outgoing = <<>> THEN g
        ELSE [nodes |-> r :> BOp("Relinearize") @@ g.nodes,
              edges |-> rest \o <<[from |-> m, to |-> r, role |-> "UnaryOperand"]>>
                             \o moved]

\* One Multiply node m: insert r, the edge (m, r, UnaryOperand), and move
\* every outgoing edge of m to r.
RelinearizeNode(g, m) ==
    LET r == NextId(g)
        FromM(e) == e.from = m
        NotFromM(e) == e.from # m
        outgoing == SelectSeq(g.edges, FromM)
        rest == SelectSeq(g.edges, NotFromM)
        moved == [i \in DOMAIN outgoing |-> Rewire(outgoing[i], r)]
    IN  [nodes |-> r :> BOp("Relinearize") @@ g.nodes,
         edges |-> rest \o <<[from |-> m, to |-> r, role |-> "UnaryOperand"]>>
                        \o moved]

RECURSIVE RelinearizeAll(_, _)
\* Visit the Multiply nodes of the input graph in id order.
RelinearizeAll(g, todo) ==
    IF todo = {} THEN g
    ELSE LET m == SetMin(todo)
         IN  RelinearizeAll(RelinearizeNode(g, m), todo \ {m})

apply_insert_relinearizations(g) == RelinearizeAll(g, MultiplyNodes(g))

(***************************************************************************)
(* Pruning (Circuit::get_outputs, Circuit::prune).                         *)
(***************************************************************************)
get_outputs(g) == {v \in NodeIds(g) : g.nodes[v].tag = "OutputCiphertext"}

Predecessors(g, S) == {g.edges[i].from : i \in {j \in DOMAIN g.edges : g.edges[j].to \in S}}

RECURSIVE Ancestors(_, _)
\* The roots and their transitive predecessors (reverse traversal).
Ancestors(g, S) ==
    LET T == S \cup Predecessors(g, S)
    IN  IF T = S THEN S ELSE Ancestors(g, T)

prune_compacting(g, roots) ==
    LET keep == Ancestors(g, roots \cap NodeIds(g))
        Kept(e) == e.from \in keep /\ e.to \in keep
        Rank(v) == Cardinality({u \in keep : u < v})
        Nth(k) == CHOOSE v \in keep : Rank(v) = k
        kept == SelectSeq(g.edges, Kept)
    IN  [nodes |-> [k \in 0 .. (Cardinality(keep) - 1) |-> g.nodes[Nth(k)]],
         edges |-> [i \in DOMAIN kept |->
                       [from |-> Rank(kept[i].from), to |-> Rank(kept[i].to),
                        role |-> kept[i].role]]]

prune(g, roots) ==
    LET keep == Ancestors(g, roots \cap NodeIds(g))
        Kept(e) == e.from \in keep /\ e.to \in keep
    IN  [nodes |-> [v \in keep |-> g.nodes[v]],
         edges |-> SelectSeq(g.edges, Kept)]

transform_prune_first(ir) ==
    apply_insert_relinearizations(prune(ir, get_outputs(ir)))

transform_no_prune(ir) == apply_insert_relinearizations(ir)

\* Relinearization insertion, then dead code elimination.
transform_intermediate_represenation(ir) ==
    LET relin == apply_insert_relinearizations(ir)
    IN  prune(relin, get_outputs(relin))

compile_inplace(ir) == transform_intermediate_represenation(ir)

(***************************************************************************)
(* IEEE-754 double precision values.  A double is NaN, an infinity, a zero,*)
(* a subnormal, or a normal value -1^sign * 2^power * 1.mantissa, where    *)
(* mant is the set of set bits of the 52-bit mantissa field.  Computed     *)
(* doubles are kept as exact binary expansions: a sign and the set of the  *)
(* powers of two that make up the magnitude.                               *)
(***************************************************************************)
\* f64::MANTISSA_DIGITS
MANTISSA_DIGITS == 53

\* The exponent bias subtracted from the biased exponent field.
EXP_BIAS == 1023

\* The power of the least subnormal double: 1 - EXP_BIAS - (MANTISSA_DIGITS - 1).
MinPower == 1 - EXP_BIAS - (MANTISSA_DIGITS - 1)

\* The set bits of a non-negative integer below 2^31.
BitsOf(d) == {k \in 0..30 : (d \div (2 ^ k)) % 2 = 1}

FZero == [neg |-> FALSE, bits |-> {}]

\* a > b for magnitudes given as sets of powers.
MagGreater(a, b) ==
    /\ a # b
    /\ SetMax((a \ b) \cup (b \ a)) \in a

RECURSIVE AddBit(_, _)
\* a + 2^p, carrying.
AddBit(a, p) == IF p \in a THEN AddBit(a \ {p}, p + 1) ELSE a \cup {p}

RECURSIVE AddBits(_, _)
AddBits(a, b) ==
    IF b = {} THEN a
    ELSE LET p == SetMax(b) IN AddBits(AddBit(a, p), b \ {p})

\* a - 2^p for a >= 2^p, borrowing.
SubBit(a, p) ==
    IF p \in a THEN a \ {p}
    ELSE LET q == SetMin({k \in a : k > p})
         IN  (a \ {q}) \cup (p .. (q - 1))

RECURSIVE SubBits(_, _)
\* a - b for a >= b.
SubBits(a, b) ==
    IF b = {} THEN a
    ELSE LET p == SetMax(b) IN SubBits(SubBit(a, p), b \ {p})

\* Round a magnitude to the nearest double, ties to even: at most
\* MANTISSA_DIGITS significant bits, none below the least subnormal power.
RoundBits(a) ==
    IF a = {} THEN a
    ELSE LET hi == SetMax(a)
             hiCut == hi - (MANTISSA_DIGITS - 1)
             cut == IF hiCut < MinPower THEN MinPower ELSE hiCut
             kept == {k \in a : k >= cut}
             low == {k \in a : k < cut}
             roundUp == /\ (cut - 1) \in low
                        /\ (low # {cut - 1} \/ cut \in kept)
         IN  IF roundUp THEN AddBit(kept, cut) ELSE kept

\* f64 addition of v and the value -1^neg * (magnitude bits).
FAdd(v, neg, bits) ==
    IF bits = {} THEN v
    ELSE IF v.bits = {} THEN [neg |-> neg, bits |-> RoundBits(bits)]
    ELSE IF v.neg = neg THEN [neg |-> neg, bits |-> RoundBits(AddBits(v.bits, bits))]
    ELSE IF v.bits = bits THEN FZero
    ELSE IF MagGreater(v.bits, bits)
         THEN [neg |-> v.neg, bits |-> RoundBits(SubBits(v.bits, bits))]
         ELSE [neg |-> neg, bits |-> RoundBits(SubBits(bits, v.bits))]

\* coeff as f64 * (power as f64).exp2(): exp2 underflows to zero below the
\* least subnormal power; the product of a small integer and a power of two
\* is exact.
TermBits(coeff, power) ==
    IF power < MinPower THEN {} ELSE {k + power : k \in BitsOf(coeff)}

\* The value of a normal double as an exact binary expansion.
NormalValue(sign, power, mant) ==
    [neg |-> sign = 1,
     bits |-> {power - (MANTISSA_DIGITS - 1) + i : i \in mant \cup {MANTISSA_DIGITS - 1}}]

(***************************************************************************)
(* Fractional<INT_BITS>::try_into_plaintext.  A plaintext polynomial is    *)
(* its length and the coefficients written so far; every other coefficient *)
(* is zero (SealPlaintext::resize zero-fills).                             *)
(***************************************************************************)
ZeroPlaintext(n) == [len |-> n, coeffs |-> <<>>]

get_coefficient(pt, i) == IF i \in DOMAIN pt.coeffs THEN pt.coeffs[i] ELSE 0

set_coefficient(pt, i, c) == [pt EXCEPT !.coeffs = i :> c @@ pt.coeffs]

\* A usize holding the cast of a possibly negative i64: a negative value
\* wraps to 2^64 + v.
AsUsize(v) == [wrapped |-> v < 0, v |-> v]

InRange(idx, n) == ~idx.wrapped /\ idx.v < n

\* The coefficient index and coefficient written for mantissa bit i.
EncodeBit(i, sign, power, mantissa, n, t) ==
    LET bit_value == IF i \in mantissa THEN 1 ELSE 0
        bit_power == power - (MANTISSA_DIGITS - i - 1)
        coeff_index == IF bit_power >= 0 THEN AsUsize(bit_power)
                       ELSE AsUsize(n + bit_power)
        digit_sign == IF bit_power >= 0 THEN sign ELSE 1 - sign
        coeff == IF digit_sign = 0 THEN bit_value
                 ELSE IF bit_value > 0 THEN t - bit_value ELSE 0
    IN  [index |-> coeff_index, coeff |-> coeff, bit_power |-> bit_power]

\* The loop over the mantissa bits, given its writes in order: it stops at
\* the first write outside the polynomial, which the plaintext library
\* rejects; of the writes done, the last one to an index sets its coefficient.
EncodeLoop(pt, writes, n) ==
    LET bad == {k \in DOMAIN writes : ~InRange(writes[k].index, n)}
        done == IF bad = {} THEN DOMAIN writes
                ELSE {k \in DOMAIN writes : k < SetMin(bad)}
        written == {writes[k].index.v : k \in done}
        last(i) == SetMax({k \in done : writes[k].index.v = i})
        coeffs == [i \in written |-> writes[last(i)].coeff]
    IN  [status |-> IF bad = {} THEN "Ok" ELSE "IndexOutOfRange",
         plaintext |-> [pt EXCEPT !.coeffs = coeffs @@ pt.coeffs]]

\* The writes of the encoding loop, in order (bit 0 first).
EncodeWrites(f, int_bits, pr) ==
    [k \in 1..MANTISSA_DIGITS |->
        EncodeBit(k - 1, f.sign, f.power, f.mant \cup {MANTISSA_DIGITS - 1},
                  pr.lattice_dimension, pr.plain_modulus)]

try_into_plaintext_power_only(f, int_bits, pr) ==
    LET n == pr.lattice_dimension
        none == <<>>
    IN  IF f.kind = "nan"
        THEN [status |-> "FheTypeError", plaintext |-> ZeroPlaintext(0), writes |-> none]
        ELSE IF f.kind = "inf"
        THEN [status |-> "FheTypeError", plaintext |-> ZeroPlaintext(0), writes |-> none]
        ELSE IF f.kind \in {"subnormal", "zero"}
        THEN [status |-> "Ok", plaintext |-> ZeroPlaintext(n), writes |-> none]
        ELSE IF f.power > int_bits
        THEN [status |-> "FheTypeError", plaintext |-> ZeroPlaintext(0), writes |-> none]
        ELSE LET writes == EncodeWrites(f, int_bits, pr)
                 r == EncodeLoop(ZeroPlaintext(n), writes, n)
             IN  [status |-> r.status, plaintext |-> r.plaintext, writes |-> writes]

try_into_plaintext(f, int_bits, pr) ==
    LET n == pr.lattice_dimension
        none == <<>>
    IN  IF f.kind = "nan"
        THEN [status |-> "FheTypeError", plaintext |-> ZeroPlaintext(0), writes |-> none]
        ELSE IF f.kind = "inf"
        THEN [status |-> "FheTypeError", plaintext |-> ZeroPlaintext(0), writes |-> none]
        ELSE IF f.kind \in {"subnormal", "zero"}
        THEN [status |-> "Ok", plaintext |-> ZeroPlaintext(n), writes |-> none]
        ELSE IF f.power + 1 > int_bits
        THEN [status |-> "FheTypeError", plaintext |-> ZeroPlaintext(0), writes |-> none]
        ELSE LET writes == EncodeWrites(f, int_bits, pr)
                 r == EncodeLoop(ZeroPlaintext(n), writes, n)
             IN  [status |-> r.status, plaintext |-> r.plaintext, writes |-> writes]

(***************************************************************************)
(* Fractional<INT_BITS>::try_from_plaintext.                               *)
(***************************************************************************)
negative_cutoff_ceil(t) == (t + 2) \div 2

negative_cutoff(t) == (t + 1) \div 2

\* One iteration of the decoding loop, for coefficient index i.
DecodeStep(v, pt, i, int_bits, pr) ==
    LET n == pr.lattice_dimension
        t == pr.plain_modulus
        power == IF i < int_bits THEN i ELSE i - n
        coeff == get_coefficient(pt, i)
        positive == power >= 0
    IN  IF coeff < negative_cutoff(t)
        THEN FAdd(v, ~positive, TermBits(coeff, power))
        ELSE FAdd(v, positive, TermBits(t - coeff, power))

RECURSIVE DecodeLoop(_, _, _, _, _)
\* The loop over the coefficient indices in todo, in ascending order.
DecodeLoop(v, pt, todo, int_bits, pr) ==
    IF todo = {} THEN v
    ELSE LET i == SetMin(todo)
             w == DecodeStep(v, pt, i, int_bits, pr)
         IN  \* the test makes TLC compute w before the next iteration
             IF w.neg \in BOOLEAN
             THEN DecodeLoop(w, pt, todo \ {i}, int_bits, pr)
             ELSE w

\* The indices below bound that hold a nonzero coefficient.  A zero
\* coefficient adds zero and leaves the value unchanged, so the loop need
\* not visit it.
NonZeroBelow(pt, bound) == {i \in DOMAIN pt.coeffs : i < bound /\ pt.coeffs[i] # 0}

try_from_plaintext(p, int_bits, pr) ==
    IF Len(p) # 1
    THEN [status |-> "IncorrectCiphertextCount", val |-> FZero]
    ELSE LET n == pr.lattice_dimension
             len == p[1].len
             bound == IF n < len THEN n ELSE len
         IN  [status |-> "Ok",
              val |-> DecodeLoop(FZero, p[1],
                                 NonZeroBelow(p[1], bound),
                                 int_bits, pr)]

VARIABLES
    graph,      \* Context.compilation.graph, the frontend graph under construction
    lastCall,   \* the latest builder call: its name, arguments and returned id
    pc,         \* "capture" while the circuit is captured, "compiled" after compile()
    lowered,    \* the backend graph produced by the map in compile()
    circuit,    \* the Circuit returned by compile()
    f,          \* the f64 held by a Fractional value (Fractional.val)
    int_bits,   \* the INT_BITS parameter of the Fractional type
    params,     \* Params: lattice_dimension and plain_modulus
    plaintext,  \* Plaintext.inner: the vector of plaintext polynomials
    origin,     \* where plaintext comes from: "encode", "receive" or "none"
    encoded,    \* the outcome of try_into_plaintext and the writes of its loop
    decoded,    \* the outcome of try_from_plaintext
    cstate,     \* progress of the codec: "idle", "ready", "held", "decoded"
    CURRENT_CTX, \* per thread-local slot: the RefCell<Option<&mut Context>>
    phase,      \* per thread: "before", "capturing" or "retired"
    captures,   \* number of contexts installed so far
    tpc,        \* per thread: "outside", "in_closure" or "panicking"
    outcome,    \* per thread: how its latest with_ctx call ended
    depth,      \* per thread: number of running with_ctx closures holding a context
    log,        \* per thread: the builder calls of its current capture
    done        \* per thread: the graph and the calls of its latest retired capture

graphVars == <<graph, lastCall, pc, lowered, circuit>>

codecVars == <<f, int_bits, params, plaintext, origin, encoded, decoded, cstate>>

ctxVars == <<CURRENT_CTX, phase, captures, tpc, outcome, depth, log, done>>

vars == <<graphVars, codecVars, ctxVars>>

NoDouble == [kind |-> "zero", sign |-> 0, power |-> 0, mant |-> {}]

NoEncoding == [status |-> "none", writes |-> <<>>]

NoDecoding == [status |-> "none", val |-> FZero]

CodecIdle ==
    /\ f = NoDouble
    /\ int_bits = 0
    /\ params = [lattice_dimension |-> 0, plain_modulus |-> 0]
    /\ plaintext = <<>>
    /\ origin = "none"
    /\ encoded = NoEncoding
    /\ decoded = NoDecoding
    /\ cstate = "idle"

Threads == {1, 2}

Slot_shared(t) == 1

\* thread_local!: every thread has a CURRENT_CTX of its own.
Slot(t) == t

Slots == {Slot(t) : t \in Threads}

\* RefCell::new(None)
NoCtx == [some |-> FALSE, borrowed |-> FALSE, graph |-> EmptyGraph]

NoCapture == [valid |-> FALSE, graph |-> EmptyGraph, log |-> <<>>]

CtxIdle ==
    /\ CURRENT_CTX = [s \in Slots |-> NoCtx]
    /\ phase = [t \in Threads |-> "before"]
    /\ captures = 0
    /\ tpc = [t \in Threads |-> "outside"]
    /\ outcome = [t \in Threads |-> "none"]
    /\ depth = [t \in Threads |-> 0]
    /\ log = [t \in Threads |-> <<>>]
    /\ done = [t \in Threads |-> NoCapture]

NoCall == [name |-> "none", args |-> <<>>, ret |-> 0, before |-> EmptyGraph]

Called(name, args, r) ==
    /\ graph' = r.graph
    /\ lastCall' = [name |-> name, args |-> args, ret |-> r.ret, before |-> graph]
    /\ UNCHANGED <<pc, lowered, circuit>>
    /\ UNCHANGED codecVars
    /\ UNCHANGED ctxVars

CanBuild == pc = "capture" /\ Cardinality(NodeIds(graph)) < MaxNodes

Init ==
    /\ graph = EmptyGraph
    /\ lastCall = NoCall
    /\ pc = "capture"
    /\ lowered = EmptyGraph
    /\ circuit = EmptyGraph
    /\ CodecIdle
    /\ CtxIdle

AddInput ==
    /\ CanBuild
    /\ Called("add_input", <<>>, add_input(graph))

AddLiteral ==
    /\ CanBuild
    /\ \E v \in LiteralValues :
          Called("add_literal", <<v>>, add_literal(graph, v))

Binary(name, tag) ==
    /\ CanBuild
    /\ \E left \in NodeIds(graph), right \in NodeIds(graph) :
          Called(name, <<left, right>>, add_2_input(graph, Op(tag), left, right))

AddSubtraction == Binary("add_subtraction", "Sub")

AddAddition == Binary("add_addition", "Add")

AddMultiplication == Binary("add_multiplication", "Multiply")

AddRotateLeft == Binary("add_rotate_left", "RotateLeft")

AddRotateRight == Binary("add_rotate_right", "RotateRight")

AddOutput ==
    /\ CanBuild
    /\ \E i \in NodeIds(graph) :
          Called("add_output", <<i>>, add_1_input(graph, Op("Output"), i))

\* FrontendCompilation::compile: lower the captured graph, then run the
\* backend transforms.
Compile ==
    /\ pc = "capture"
    /\ pc' = "compiled"
    /\ lowered' = Lower(graph)
    /\ circuit' = compile_inplace(Lower(graph))
    /\ UNCHANGED <<graph, lastCall>>
    /\ UNCHANGED codecVars
    /\ UNCHANGED ctxVars

Next ==
    \/ AddInput
    \/ AddLiteral
    \/ AddSubtraction
    \/ AddAddition
    \/ AddMultiplication
    \/ AddRotateLeft
    \/ AddRotateRight
    \/ AddOutput
    \/ Compile

Spec == Init /\ [][Next]_vars

\* The relinearized graph the transform prunes, for a compiled circuit.
Relinearized == apply_insert_relinearizations(lowered)

(***************************************************************************)
(* The codec as a state machine: a Fractional value is encoded and the     *)
(* plaintext decoded again, or a plaintext arrives from elsewhere (the     *)
(* runtime's decryption) and is decoded.                                   *)
(***************************************************************************)
\* Mantissa fields of 1.0, of values with the lowest, the highest and all
\* fraction bits set, of 5.8125 = 1.453125 * 2^2 and of 6.6 = 1.65 * 2^2.
Mantissas ==
    {{}, {0}, {51}, {0, 51}, 0..51, {46, 48, 49, 50},
     {49, 51} \cup {4 * k + 1 : k \in 0..11} \cup {4 * k + 2 : k \in 0..11}}

Powers == {-1022, -950, -31, -2, -1, 0, 2, 7, 8, 43, 63, 64}

Doubles ==
    [kind : {"normal"}, sign : {0, 1}, power : Powers, mant : Mantissas]
    \cup [kind : {"nan", "inf", "zero", "subnormal"}, sign : {0, 1},
          power : {0}, mant : {{}}]

IntBitsChoices == {8, 64}

ParamChoices ==
    [lattice_dimension : {1024, 4096}, plain_modulus : {2, 3, 4, 1000000}]

\* Coefficients around the sign cutoff, for a plain modulus t.
DigitChoices(t) == {0, 1, (t \div 2) - 1, t \div 2, (t \div 2) + 1, t - 1} \cap (0 .. (t - 1))

\* Plaintext vectors handed to decode: one polynomial with a single nonzero
\* digit among the integer or the fractional coefficients, a polynomial
\* shorter than n, and a vector of two polynomials.
ReceivedPlaintexts(pr) ==
    LET n == pr.lattice_dimension
        t == pr.plain_modulus
    IN  {<<set_coefficient(ZeroPlaintext(n), i, c)>> :
             i \in {0, 1, n - 1}, c \in DigitChoices(t)}
        \cup {<<set_coefficient(ZeroPlaintext(1), 0, 1)>>}
        \cup {<<ZeroPlaintext(n), ZeroPlaintext(n)>>}

CodecInit ==
    /\ graph = EmptyGraph
    /\ lastCall = NoCall
    /\ pc = "idle"
    /\ lowered = EmptyGraph
    /\ circuit = EmptyGraph
    /\ f \in Doubles
    /\ int_bits \in IntBitsChoices
    /\ params \in ParamChoices
    /\ plaintext = <<>>
    /\ origin = "none"
    /\ encoded = NoEncoding
    /\ decoded = NoDecoding
    /\ cstate = "ready"
    /\ CtxIdle

\* try_into_plaintext(&self, params)
Encode ==
    /\ cstate = "ready"
    /\ LET r == try_into_plaintext(f, int_bits, params)
       IN  /\ encoded' = [status |-> r.status, writes |-> r.writes]
           /\ plaintext' = IF r.status = "Ok" THEN <<r.plaintext>> ELSE <<>>
           /\ cstate' = IF r.status = "Ok" THEN "held" ELSE "failed"
    /\ origin' = "encode"
    /\ UNCHANGED <<f, int_bits, params, decoded>>
    /\ UNCHANGED graphVars
    /\ UNCHANGED ctxVars

\* A plaintext produced elsewhere is handed to the decoder.
Receive ==
    /\ cstate = "ready"
    /\ plaintext' \in ReceivedPlaintexts(params)
    /\ origin' = "receive"
    /\ cstate' = "held"
    /\ UNCHANGED <<f, int_bits, params, encoded, decoded>>
    /\ UNCHANGED graphVars
    /\ UNCHANGED ctxVars

\* try_from_plaintext(plaintext, params)
Decode ==
    /\ cstate = "held"
    /\ decoded' = try_from_plaintext(plaintext, int_bits, params)
    /\ cstate' = "decoded"
    /\ UNCHANGED <<f, int_bits, params, plaintext, origin, encoded>>
    /\ UNCHANGED graphVars
    /\ UNCHANGED ctxVars

CodecNext == Encode \/ Receive \/ Decode

SpecCodec == CodecInit /\ [][CodecNext]_vars

(***************************************************************************)
(* Properties of the builder, the lowering and the transform pipeline.     *)
(***************************************************************************)
(***************************************************************************)
(* The capture window: CURRENT_CTX, with_ctx, and the installation and     *)
(* retirement of a context around the captured function.                   *)
(***************************************************************************)
MaxCaptures == 3

MaxCalls == 2

MaxDepth == 2

CtxLiterals == {7}

borrow_mut_unchecked(cell) == [ok |-> TRUE, cell |-> [cell EXCEPT !.borrowed = TRUE]]

\* RefCell::borrow_mut: panics when the cell is already borrowed.
borrow_mut(cell) ==
    IF cell.borrowed
    THEN [ok |-> FALSE, cell |-> cell]
    ELSE [ok |-> TRUE, cell |-> [cell EXCEPT !.borrowed = TRUE]]

with_ctx_default_ctx(cell) ==
    LET b == borrow_mut(cell)
    IN  IF ~b.ok THEN [status |-> "BorrowMutError", cell |-> cell]
        ELSE IF ~cell.some
        THEN [status |-> "Entered",
              cell |-> [some |-> TRUE, borrowed |-> TRUE, graph |-> EmptyGraph]]
        ELSE [status |-> "Entered", cell |-> b.cell]

\* with_ctx up to the call of f: borrow the cell, then expect a context in
\* it. A panic unwinds with_ctx and drops the RefMut it may have taken, so a
\* failed call leaves the cell as it found it.
with_ctx(cell) ==
    LET b == borrow_mut(cell)
    IN  IF ~b.ok THEN [status |-> "BorrowMutError", cell |-> cell]
        ELSE IF ~cell.some THEN [status |-> "ContextMissing", cell |-> cell]
        ELSE [status |-> "Entered", cell |-> b.cell]

\* The builder calls a closure can make on graph g.
Calls(g) ==
    {[name |-> "add_input", args |-> <<>>]}
    \cup {[name |-> "add_literal", args |-> <<v>>] : v \in CtxLiterals}
    \cup {[name |-> "add_multiplication", args |-> <<l, r>>] :
              l \in NodeIds(g), r \in NodeIds(g)}
    \cup {[name |-> "add_output", args |-> <<i>>] : i \in NodeIds(g)}

\* The graph after builder call c on graph g.
Apply(g, c) ==
    CASE c.name = "add_input" -> add_input(g).graph
      [] c.name = "add_literal" -> add_literal(g, c.args[1]).graph
      [] c.name = "add_multiplication" ->
             add_2_input(g, Op("Multiply"), c.args[1], c.args[2]).graph
      [] c.name = "add_output" -> add_1_input(g, Op("Output"), c.args[1]).graph

RECURSIVE Replay(_)
\* The graph a call sequence builds on a fresh context, run alone.
Replay(calls) ==
    IF calls = <<>> THEN EmptyGraph
    ELSE Apply(Replay(SubSeq(calls, 1, Len(calls) - 1)), calls[Len(calls)])

CtxInit ==
    /\ graph = EmptyGraph
    /\ lastCall = NoCall
    /\ pc = "idle"
    /\ lowered = EmptyGraph
    /\ circuit = EmptyGraph
    /\ CodecIdle
    /\ CtxIdle

\* The compilation installs a fresh Context in the thread's CURRENT_CTX.
Install(t) ==
    /\ tpc[t] = "outside"
    /\ phase[t] # "capturing"
    /\ captures < MaxCaptures
    /\ CURRENT_CTX' = [CURRENT_CTX EXCEPT ![Slot(t)] =
                          [some |-> TRUE, borrowed |-> FALSE, graph |-> EmptyGraph]]
    /\ phase' = [phase EXCEPT ![t] = "capturing"]
    /\ captures' = captures + 1
    /\ log' = [log EXCEPT ![t] = <<>>]
    /\ UNCHANGED <<tpc, outcome, depth, done>>
    /\ UNCHANGED <<graphVars, codecVars>>

\* The compilation takes the context back once the captured function has
\* returned and leaves None in CURRENT_CTX.
Retire(t) ==
    /\ tpc[t] = "outside"
    /\ phase[t] = "capturing"
    /\ done' = [done EXCEPT ![t] =
                   [valid |-> TRUE, graph |-> CURRENT_CTX[Slot(t)].graph, log |-> log[t]]]
    /\ CURRENT_CTX' = [CURRENT_CTX EXCEPT ![Slot(t)] = NoCtx]
    /\ phase' = [phase EXCEPT ![t] = "retired"]
    /\ UNCHANGED <<captures, tpc, outcome, depth, log>>
    /\ UNCHANGED <<graphVars, codecVars>>

\* A with_ctx call made while no with_ctx closure of the thread is running.
WithCtx(t) ==
    /\ tpc[t] = "outside"
    /\ LET r == with_ctx(CURRENT_CTX[Slot(t)])
       IN  /\ CURRENT_CTX' = [CURRENT_CTX EXCEPT ![Slot(t)] = r.cell]
           /\ outcome' = [outcome EXCEPT ![t] = r.status]
           /\ tpc' = [tpc EXCEPT ![t] =
                         IF r.status = "Entered" THEN "in_closure" ELSE "panicking"]
           /\ depth' = [depth EXCEPT ![t] = IF r.status = "Entered" THEN 1 ELSE 0]
    /\ UNCHANGED <<phase, captures, log, done>>
    /\ UNCHANGED <<graphVars, codecVars>>

\* f(ctx): the closure makes a builder call on the context it was given.
ClosureCall(t) ==
    /\ tpc[t] = "in_closure"
    /\ Len(log[t]) < MaxCalls
    /\ \E c \in Calls(CURRENT_CTX[Slot(t)].graph) :
          /\ CURRENT_CTX' = [CURRENT_CTX EXCEPT ![Slot(t)].graph = Apply(@, c)]
          /\ log' = [log EXCEPT ![t] = Append(@, c)]
    /\ UNCHANGED <<phase, captures, tpc, outcome, depth, done>>
    /\ UNCHANGED <<graphVars, codecVars>>

\* A with_ctx call made from inside a running with_ctx closure.
NestedWithCtx(t) ==
    /\ tpc[t] = "in_closure"
    /\ depth[t] < MaxDepth
    /\ LET r == with_ctx(CURRENT_CTX[Slot(t)])
       IN  /\ CURRENT_CTX' = [CURRENT_CTX EXCEPT ![Slot(t)] = r.cell]
           /\ outcome' = [outcome EXCEPT ![t] = r.status]
           /\ tpc' = [tpc EXCEPT ![t] =
                         IF r.status = "Entered" THEN "in_closure" ELSE "panicking"]
           /\ depth' = [depth EXCEPT ![t] =
                           IF r.status = "Entered" THEN @ + 1 ELSE @]
    /\ UNCHANGED <<phase, captures, log, done>>
    /\ UNCHANGED <<graphVars, codecVars>>

\* The closure returns and with_ctx drops its RefMut.
ClosureReturn(t) ==
    /\ tpc[t] = "in_closure"
    /\ depth' = [depth EXCEPT ![t] = @ - 1]
    /\ tpc' = [tpc EXCEPT ![t] = IF depth[t] = 1 THEN "outside" ELSE "in_closure"]
    /\ CURRENT_CTX' = [CURRENT_CTX EXCEPT ![Slot(t)].borrowed = depth[t] > 1]
    /\ UNCHANGED <<phase, captures, outcome, log, done>>
    /\ UNCHANGED <<graphVars, codecVars>>

\* A panic leaves the running closures of the thread; their RefMut is dropped.
Unwind(t) ==
    /\ tpc[t] = "panicking"
    /\ tpc' = [tpc EXCEPT ![t] = "outside"]
    /\ depth' = [depth EXCEPT ![t] = 0]
    /\ CURRENT_CTX' = [CURRENT_CTX EXCEPT ![Slot(t)].borrowed =
                          IF depth[t] > 0 THEN FALSE ELSE @]
    /\ UNCHANGED <<phase, captures, outcome, log, done>>
    /\ UNCHANGED <<graphVars, codecVars>>

CtxNext ==
    \E t \in Threads :
        \/ Install(t)
        \/ Retire(t)
        \/ WithCtx(t)
        \/ ClosureCall(t)
        \/ NestedWithCtx(t)
        \/ ClosureReturn(t)
        \/ Unwind(t)

SpecCtx == CtxInit /\ [][CtxNext]_vars

Compiled == pc = "compiled"

\* C1: running the relinearization insertion pass on its own output yields a
\* graph isomorphic to that output (no further Relinearize node is added).
C1_RelinIdempotent ==
    Compiled =>
        Isomorphic(apply_insert_relinearizations(Relinearized), Relinearized)

\* The ordinal of node k among the input nodes, in insertion order.
InputOrdinal(g, k) ==
    Cardinality({j \in NodeIds(g) : j < k /\ g.nodes[j].tag = "InputCiphertext"})

\* C2: lowering turns the i-th inserted input node (counting inputs only,
\* from 0) into InputCiphertext(i), also when it was inserted after a literal
\* or an operation node.
C2_InputOrdinal ==
    Compiled =>
        \A k \in NodeIds(graph) :
            graph.nodes[k].tag = "InputCiphertext" =>
                lowered.nodes[k] = InputCiphertext(InputOrdinal(graph, k))

LiteralNodes(g, v) ==
    {i \in NodeIds(g) : g.nodes[i].tag = "Literal" /\ g.nodes[i].val = v}

\* C4: at most one Literal node per value; add_literal(v) returns the existing
\* node and leaves the graph unchanged when there is one, and otherwise
\* inserts exactly one node; every other builder call inserts a new node.
C4_LiteralDedup ==
    /\ \A v \in LiteralValues : Cardinality(LiteralNodes(graph, v)) <= 1
    /\ lastCall.name = "add_literal" =>
          LET v == lastCall.args[1]
              old == lastCall.before
          IN  IF LiteralNodes(old, v) # {}
              THEN /\ graph = old
                   /\ lastCall.ret \in LiteralNodes(old, v)
              ELSE /\ NodeIds(graph) = NodeIds(old) \cup {lastCall.ret}
                   /\ lastCall.ret \notin NodeIds(old)
                   /\ graph.nodes[lastCall.ret] = LiteralOp(v)
                   /\ \A i \in NodeIds(old) : graph.nodes[i] = old.nodes[i]
                   /\ graph.edges = old.edges
    /\ lastCall.name \notin {"none", "add_literal"} =>
          /\ lastCall.ret \notin NodeIds(lastCall.before)
          /\ NodeIds(graph) = NodeIds(lastCall.before) \cup {lastCall.ret}

\* C4 witness: add_literal found an existing literal in a graph that also
\* holds other nodes.
C4_Witness ==
    /\ lastCall.name = "add_literal"
    /\ LiteralNodes(lastCall.before, lastCall.args[1]) # {}
    /\ Cardinality(NodeIds(graph)) >= 2

\* The roles of the edges entering v, as a set, and their number.
InRoles(g, v) == {g.edges[i].role : i \in InEdges(g, v)}

InDegree(g, v) == Cardinality(InEdges(g, v))

BinaryCalls ==
    {"add_addition", "add_subtraction", "add_multiplication",
     "add_rotate_left", "add_rotate_right"}

\* C7: every two-input node has exactly two incoming edges, Left from the
\* first operand and Right from the second; every Output node has exactly one,
\* tagged Unary; inputs and literals have none.
C7_OperandRoles ==
    /\ \A v \in NodeIds(graph) :
          LET tag == graph.nodes[v].tag
          IN  /\ tag \in BinaryTags =>
                    InDegree(graph, v) = 2 /\ InRoles(graph, v) = {"Left", "Right"}
              /\ tag = "Output" =>
                    InDegree(graph, v) = 1 /\ InRoles(graph, v) = {"Unary"}
              /\ tag \in {"InputCiphertext", "Literal"} => InDegree(graph, v) = 0
    /\ lastCall.name \in BinaryCalls =>
          {graph.edges[i] : i \in InEdges(graph, lastCall.ret)} =
              {[from |-> lastCall.args[1], to |-> lastCall.ret, role |-> "Left"],
               [from |-> lastCall.args[2], to |-> lastCall.ret, role |-> "Right"]}
    /\ lastCall.name = "add_output" =>
          {graph.edges[i] : i \in InEdges(graph, lastCall.ret)} =
              {[from |-> lastCall.args[1], to |-> lastCall.ret, role |-> "Unary"]}

\* C7 witness: a two-input call whose two operands are the same node, in a
\* graph that also holds an output.
C7_Witness ==
    /\ lastCall.name \in BinaryCalls
    /\ lastCall.args[1] = lastCall.args[2]
    /\ \E v \in NodeIds(graph) : graph.nodes[v].tag = "Output"

\* Nodes of g with the given tag that receive an edge from m.
ConsumersTagged(g, m, tag) ==
    {g.edges[i].to : i \in {j \in OutEdges(g, m) : g.nodes[g.edges[j].to].tag = tag}}

\* C5: for every Multiply node m with an outgoing edge in the input graph, the
\* output of the pass has exactly one Relinearize node r fed by m through a
\* single UnaryOperand edge, every original edge (m, c, role) has become
\* (r, c, role), and m keeps no edge to an original consumer.
C5_RelinRewiring ==
    Compiled =>
        \A m \in MultiplyNodes(lowered) :
            OutEdges(lowered, m) # {} =>
                LET relins == ConsumersTagged(Relinearized, m, "Relinearize")
                IN  /\ Cardinality(relins) = 1
                    /\ \A r \in relins :
                          /\ r \notin NodeIds(lowered)
                          /\ EdgeCount(Relinearized,
                                 [from |-> m, to |-> r, role |-> "UnaryOperand"]) = 1
                          /\ \A i \in OutEdges(Relinearized, m) :
                                Relinearized.edges[i] =
                                    [from |-> m, to |-> r, role |-> "UnaryOperand"]
                          /\ \A i \in OutEdges(lowered, m) :
                                LET e == lowered.edges[i]
                                IN  EdgeCount(Relinearized,
                                        [from |-> r, to |-> e.to, role |-> e.role])
                                    = EdgeCount(lowered, e)
                          /\ Cardinality(OutEdges(Relinearized, r)) =
                                Cardinality(OutEdges(lowered, m))

\* C5 witness: a Multiply whose consumer is itself a Multiply and takes it as
\* both its Left and its Right operand.
C5_Witness ==
    /\ Compiled
    /\ \E m \in MultiplyNodes(lowered), c \in MultiplyNodes(lowered) :
          /\ EdgeCount(lowered, [from |-> m, to |-> c, role |-> "LeftOperand"]) = 1
          /\ EdgeCount(lowered, [from |-> m, to |-> c, role |-> "RightOperand"]) = 1

Successors(g, S) == {g.edges[i].to : i \in {j \in DOMAIN g.edges : g.edges[j].from \in S}}

RECURSIVE Descendants(_, _)
\* The nodes reached from S along data-dependency edges (S included).
Descendants(g, S) ==
    LET T == S \cup Successors(g, S)
    IN  IF T = S THEN S ELSE Descendants(g, T)

ReachesOutput(g, v) == Descendants(g, {v}) \cap get_outputs(g) # {}

\* C6: a node of the relinearized graph is in the returned circuit if and
\* only if it is an OutputCiphertext node or has a directed path to one.
C6_PruneIffReachesOutput ==
    Compiled =>
        /\ NodeIds(circuit) \subseteq NodeIds(Relinearized)
        /\ \A v \in NodeIds(Relinearized) :
              v \in NodeIds(circuit) <=> ReachesOutput(Relinearized, v)

\* C6 witness: the circuit keeps an output and its operand and drops an unused
\* input, an unused literal and a dangling Relinearize.
C6_Witness ==
    /\ Compiled
    /\ get_outputs(circuit) # {}
    /\ \E v \in NodeIds(Relinearized) \ NodeIds(circuit) :
          Relinearized.nodes[v].tag \in {"InputCiphertext", "Literal"}
    /\ \E v \in NodeIds(Relinearized) \ NodeIds(circuit) :
          Relinearized.nodes[v].tag = "Relinearize"

\* The lowering table of node tags and of edge roles.
TagTable ==
    [Add |-> "Add", Sub |-> "Sub", Multiply |-> "Multiply",
     RotateLeft |-> "ShiftLeft", RotateRight |-> "ShiftRight",
     SwapRows |-> "SwapRows", Literal |-> "Literal", Output |-> "OutputCiphertext",
     InputCiphertext |-> "InputCiphertext"]

RoleTable == [Left |-> "LeftOperand", Right |-> "RightOperand", Unary |-> "UnaryOperand"]

\* C8: lowering keeps every node id, gives each node the tag of the table
\* (a literal keeps its value), maps every edge (u, v, role) to exactly one
\* edge (u, v, role'), and adds or drops no node or edge.
C8_LoweringPreservesTopology ==
    Compiled =>
        /\ NodeIds(lowered) = NodeIds(graph)
        /\ \A v \in NodeIds(graph) :
              /\ lowered.nodes[v].tag = TagTable[graph.nodes[v].tag]
              /\ graph.nodes[v].tag = "Literal" =>
                    lowered.nodes[v].val = graph.nodes[v].val
        /\ Len(lowered.edges) = Len(graph.edges)
        /\ \A e \in EdgeSet(graph) :
              EdgeCount(lowered, [from |-> e.from, to |-> e.to, role |-> RoleTable[e.role]])
                  = EdgeCount(graph, e)

\* C8 witness: a compiled graph with a rotation, a literal and an output.
C8_Witness ==
    /\ Compiled
    /\ \E v \in NodeIds(graph) : graph.nodes[v].tag = "RotateLeft"
    /\ \E v \in NodeIds(graph) : graph.nodes[v].tag = "Literal"
    /\ \E v \in NodeIds(graph) : graph.nodes[v].tag = "Output"

(***************************************************************************)
(* Properties of the Fractional codec.                                     *)
(***************************************************************************)
\* The double f is normal and its integer part fits in INT_BITS bits.
Encodable == f.kind = "normal" /\ f.power + 1 <= int_bits

\* C3: for a normal double whose unbiased exponent p has p + 1 <= INT_BITS,
\* with n >= 53 + INT_BITS and t > 2, encoding succeeds and decoding the
\* encoded plaintext returns exactly the double.
C3_RoundTrip ==
    (/\ origin = "encode"
     /\ Encodable
     /\ params.lattice_dimension >= 53 + int_bits
     /\ params.plain_modulus > 2)
    => /\ encoded.status = "Ok"
       /\ cstate = "decoded" =>
             decoded = [status |-> "Ok", val |-> NormalValue(f.sign, f.power, f.mant)]

\* The round trip of C3 does hold for the doubles all of whose mantissa bits
\* have a power of at least INT_BITS - n, so that each fractional digit lands
\* on a coefficient index the decoder reads as fractional.
RoundTripWithinFraction ==
    (/\ origin = "encode"
     /\ Encodable
     /\ f.power - (MANTISSA_DIGITS - 1) >= int_bits - params.lattice_dimension
     /\ params.plain_modulus > 2)
    => /\ encoded.status = "Ok"
       /\ cstate = "decoded" =>
             decoded = [status |-> "Ok", val |-> NormalValue(f.sign, f.power, f.mant)]

\* The decoded plaintext is one polynomial of n coefficients with a single
\* written coefficient.
SingleDigit ==
    /\ cstate = "decoded"
    /\ origin = "receive"
    /\ Len(plaintext) = 1
    /\ plaintext[1].len = params.lattice_dimension
    /\ Cardinality(DOMAIN plaintext[1].coeffs) = 1

\* The double a single coefficient c at index i stands for when c counts as a
\* positive digit c below cutoff and as a negative digit t - c from cutoff on.
DigitValue(c, i, cutoff) ==
    LET t == params.plain_modulus
        power == IF i < int_bits THEN i ELSE i - params.lattice_dimension
        negative == c >= cutoff
        magnitude == IF negative THEN t - c ELSE c
    IN  IF magnitude = 0 THEN FZero
        ELSE [neg |-> negative # (power < 0),
              bits |-> {k + power : k \in BitsOf(magnitude)}]

\* C9: decode treats c as the positive digit c when c < ceil((t+1)/2) and as
\* the negative digit t - c otherwise, so for even t the coefficient t/2 is
\* the positive digit t/2.
C9_SignRuleCeiling ==
    SingleDigit =>
        \A i \in DOMAIN plaintext[1].coeffs :
            decoded.val = DigitValue(plaintext[1].coeffs[i], i,
                                     (params.plain_modulus + 2) \div 2)

\* C9 as amended: decode treats c as the positive digit c when
\* c < floor((t+1)/2) and as the negative digit t - c otherwise, so for even
\* t the coefficient t/2 is the negative digit t/2.
C9_SignRuleFloor ==
    SingleDigit =>
        \A i \in DOMAIN plaintext[1].coeffs :
            decoded.val = DigitValue(plaintext[1].coeffs[i], i,
                                     (params.plain_modulus + 1) \div 2)

\* C9 witness: the coefficient t/2 of an even plain modulus above 2 has been
\* decoded.
C9_Witness ==
    /\ SingleDigit
    /\ params.plain_modulus % 2 = 0
    /\ params.plain_modulus > 2
    /\ \E i \in DOMAIN plaintext[1].coeffs :
          plaintext[1].coeffs[i] = params.plain_modulus \div 2

LatticeDimensions == {1024 * (2 ^ k) : k \in 0..5}

\* C10: for every double encode accepts, with n a power of two >= 1024 and
\* t > 1, encode returns a polynomial of exactly n coefficients in [0, t),
\* and every coefficient index it writes lies in [0, n).
C10_EncodingShape ==
    (/\ origin = "encode"
     /\ f.kind \notin {"nan", "inf"}
     /\ f.kind = "normal" => f.power + 1 <= int_bits
     /\ params.lattice_dimension \in LatticeDimensions
     /\ params.plain_modulus > 1)
    => /\ encoded.status = "Ok"
       /\ \A k \in DOMAIN encoded.writes :
             InRange(encoded.writes[k].index, params.lattice_dimension)
       /\ cstate = "held" =>
             /\ Len(plaintext) = 1
             /\ plaintext[1].len = params.lattice_dimension
             /\ \A i \in DOMAIN plaintext[1].coeffs :
                   /\ i \in 0 .. (params.lattice_dimension - 1)
                   /\ plaintext[1].coeffs[i] \in 0 .. (params.plain_modulus - 1)

\* C11: encode returns FheTypeError for NaN, for an infinity and for a normal
\* double whose unbiased exponent plus one exceeds INT_BITS (so for
\* 2^INT_BITS); a zero or a subnormal never fails and encodes to the all-zero
\* polynomial of n coefficients.
C11_EncodingFailures ==
    origin = "encode" =>
        /\ f.kind \in {"nan", "inf"} => encoded.status = "FheTypeError"
        /\ (f.kind = "normal" /\ f.power + 1 > int_bits) =>
              encoded.status = "FheTypeError"
        /\ encoded.status = "FheTypeError" => plaintext = <<>> /\ cstate = "failed"
        /\ f.kind \in {"zero", "subnormal"} =>
              /\ encoded.status = "Ok"
              /\ Len(plaintext) = 1
              /\ plaintext[1].len = params.lattice_dimension
              /\ \A i \in 0 .. (params.lattice_dimension - 1) :
                    get_coefficient(plaintext[1], i) = 0

\* C11 witness: encoding 2^INT_BITS has failed.
C11_Witness ==
    /\ origin = "encode"
    /\ f.kind = "normal"
    /\ f.power = int_bits
    /\ f.mant = {}
    /\ encoded.status = "FheTypeError"

\* Relinearize nodes the pass has inserted.
InsertedRelins == NodeIds(Relinearized) \ NodeIds(lowered)

\* C14: after the relinearization pass every Multiply node, also one without
\* a consumer in the input graph, has at most one outgoing edge and that edge
\* goes to a Relinearize node inserted by the pass; the Relinearize inserted
\* for a Multiply without consumers has no outgoing edge; every inserted
\* Relinearize has exactly one incoming edge, which comes from its Multiply.
C14_MultiplyFeedsOneRelin ==
    Compiled =>
        /\ MultiplyNodes(Relinearized) = MultiplyNodes(lowered)
        /\ \A m \in MultiplyNodes(Relinearized) :
              /\ Cardinality(OutEdges(Relinearized, m)) <= 1
              /\ \A i \in OutEdges(Relinearized, m) :
                    /\ Relinearized.edges[i].to \in InsertedRelins
                    /\ Relinearized.nodes[Relinearized.edges[i].to].tag = "Relinearize"
              /\ OutEdges(lowered, m) = {} =>
                    \E r \in InsertedRelins :
                        /\ EdgeCount(Relinearized,
                               [from |-> m, to |-> r, role |-> "UnaryOperand"]) = 1
                        /\ OutEdges(Relinearized, r) = {}
        /\ \A r \in InsertedRelins :
              /\ Relinearized.nodes[r].tag = "Relinearize"
              /\ Cardinality(InEdges(Relinearized, r)) = 1
              /\ \A i \in InEdges(Relinearized, r) :
                    /\ Relinearized.edges[i].from \in MultiplyNodes(lowered)
                    /\ Relinearized.edges[i].role = "UnaryOperand"
        /\ Cardinality(InsertedRelins) = Cardinality(MultiplyNodes(lowered))

\* C14 witness: the pass has run on a graph with a Multiply that has no
\* consumer and a Multiply that has one.
C14_Witness ==
    /\ Compiled
    /\ \E m \in MultiplyNodes(lowered) : OutEdges(lowered, m) = {}
    /\ \E m \in MultiplyNodes(lowered) : OutEdges(lowered, m) # {}

\* Nodes of g with the given tag.
Tagged(g, tag) == {v \in NodeIds(g) : g.nodes[v].tag = tag}

\* C15: the transform inserts relinearizations first and prunes last: the
\* returned circuit is a subgraph of the relinearized graph in which no
\* Relinearize is dangling, every Multiply has exactly one outgoing edge, to
\* a Relinearize, and every Relinearize has exactly one incoming edge, from a
\* Multiply.
C15_RelinThenPrune ==
    Compiled =>
        /\ \A v \in NodeIds(circuit) :
              v \in NodeIds(Relinearized) /\ circuit.nodes[v] = Relinearized.nodes[v]
        /\ EdgeSet(circuit) \subseteq EdgeSet(Relinearized)
        /\ \A r \in Tagged(circuit, "Relinearize") :
              /\ OutEdges(circuit, r) # {}
              /\ Cardinality(InEdges(circuit, r)) = 1
              /\ \A i \in InEdges(circuit, r) :
                    circuit.nodes[circuit.edges[i].from].tag = "Multiply"
        /\ \A m \in Tagged(circuit, "Multiply") :
              /\ Cardinality(OutEdges(circuit, m)) = 1
              /\ \A i \in OutEdges(circuit, m) :
                    circuit.nodes[circuit.edges[i].to].tag = "Relinearize"

\* C15 witness: the circuit holds a Multiply with its Relinearize, and the
\* dangling Relinearize of a dead Multiply has been pruned away.
C15_Witness ==
    /\ Compiled
    /\ Tagged(circuit, "Multiply") # {}
    /\ Tagged(circuit, "Relinearize") # {}
    /\ \E r \in Tagged(Relinearized, "Relinearize") :
          /\ OutEdges(Relinearized, r) = {}
          /\ r \notin NodeIds(circuit)

\* C16: pruning leaves the survivors unchanged: every node of the returned
\* circuit is a node of the relinearized graph with the same id and the same
\* operation (an InputCiphertext keeps its index also when an input with a
\* smaller index was removed), and the edges of the circuit are exactly the
\* edges of the relinearized graph whose two endpoints survive, with their
\* roles and their multiplicities.
C16_PruneKeepsSurvivors ==
    Compiled =>
        /\ \A v \in NodeIds(circuit) :
              /\ v \in NodeIds(Relinearized)
              /\ circuit.nodes[v].tag = Relinearized.nodes[v].tag
              /\ circuit.nodes[v].val = Relinearized.nodes[v].val
        /\ \A e \in EdgeSet(Relinearized) \cup EdgeSet(circuit) :
              EdgeCount(circuit, e) =
                  IF e.from \in NodeIds(circuit) /\ e.to \in NodeIds(circuit)
                  THEN EdgeCount(Relinearized, e)
                  ELSE 0

\* C16 witness: an input has been pruned away while an input with a larger
\* index survives together with an edge.
C16_Witness ==
    /\ Compiled
    /\ circuit.edges # <<>>
    /\ \E v \in Tagged(circuit, "InputCiphertext") :
          \E u \in Tagged(Relinearized, "InputCiphertext") \ NodeIds(circuit) :
              Relinearized.nodes[u].val < circuit.nodes[v].val

\* C17: builder calls only grow the graph: after a call every node and every
\* edge that existed before it is still there unchanged, a new node gets the
\* next id in insertion order (the number of nodes created before it), and
\* every edge goes from a smaller id to a strictly larger id, so the frontend
\* graph is acyclic.
C17_BuilderMonotone ==
    /\ NodeIds(graph) = 0 .. (Cardinality(NodeIds(graph)) - 1)
    /\ \A i \in DOMAIN graph.edges : graph.edges[i].from < graph.edges[i].to
    /\ lastCall.name # "none" =>
          LET before == lastCall.before
          IN  /\ \A v \in NodeIds(before) :
                    v \in NodeIds(graph) /\ graph.nodes[v] = before.nodes[v]
              /\ Len(before.edges) <= Len(graph.edges)
              /\ SubSeq(graph.edges, 1, Len(before.edges)) = before.edges
              /\ \A v \in NodeIds(graph) \ NodeIds(before) :
                    /\ v = Cardinality(NodeIds(before))
                    /\ v = lastCall.ret
                    /\ \A u \in NodeIds(before) : u < v
              /\ \A i \in (Len(before.edges) + 1) .. Len(graph.edges) :
                    /\ graph.edges[i].from \in NodeIds(before)
                    /\ graph.edges[i].to = lastCall.ret

\* C17 witness: a call with operands has extended a graph that already had
\* edges.
C17_Witness ==
    /\ lastCall.name \in BinaryCalls \cup {"add_output"}
    /\ lastCall.before.edges # <<>>
    /\ Len(graph.edges) > Len(lastCall.before.edges)
    /\ lastCall.ret \notin NodeIds(lastCall.before)

\* A with_ctx call of thread t made outside any running closure happens in
\* this step.
TopLevelCall(t) == tpc[t] = "outside" /\ tpc'[t] \in {"in_closure", "panicking"}

\* The graphs that exist: the ones in the installed contexts and the retired
\* ones.
AllGraphs ==
    <<[s \in Slots |-> CURRENT_CTX[s].graph], [t \in Threads |-> done[t].graph]>>

C12_Step ==
    \A t \in Threads :
        /\ TopLevelCall(t) =>
              /\ outcome'[t] = "Entered" <=> phase[t] = "capturing"
              /\ phase[t] # "capturing" =>
                    /\ outcome'[t] = "ContextMissing"
                    /\ AllGraphs' = AllGraphs
                    /\ CURRENT_CTX' = CURRENT_CTX
        /\ (phase[t] # "capturing" /\ phase'[t] = "capturing") =>
              /\ CURRENT_CTX'[Slot(t)].some
              /\ CURRENT_CTX'[Slot(t)].graph = EmptyGraph

C13_IndependentCaptures ==
    \A t \in Threads :
        /\ phase[t] = "capturing" =>
              /\ CURRENT_CTX[Slot(t)].some
              /\ CURRENT_CTX[Slot(t)].graph = Replay(log[t])
        /\ done[t].valid => done[t].graph = Replay(done[t].log)

\* C13 witness: both threads are inside a with_ctx closure of their own
\* capture at the same time, each having made its calls, with different
\* graphs.
C13_Witness ==
    /\ \A t \in Threads :
          /\ phase[t] = "capturing"
          /\ tpc[t] = "in_closure"
          /\ Len(log[t]) = MaxCalls
    /\ CURRENT_CTX[Slot(1)].graph # CURRENT_CTX[Slot(2)].graph

\* C18: on a thread at most one with_ctx closure holds the context; a
\* with_ctx call made inside a running closure fails and hands out no second
\* reference; the cell is borrowed exactly while a closure runs, so the
\* context is available again once the outer closure has returned.
C18_ExclusiveBorrow ==
    \A t \in Threads :
        /\ depth[t] <= 1
        /\ CURRENT_CTX[Slot(t)].borrowed <=> depth[t] = 1
        /\ tpc[t] = "in_closure" => depth[t] = 1
        /\ tpc[t] = "outside" => depth[t] = 0
        /\ (tpc[t] = "panicking" /\ depth[t] = 1) => outcome[t] = "BorrowMutError"
        /\ outcome[t] = "BorrowMutError" => phase[t] = "capturing" \/ done[t].valid

\* C18 witness: a nested with_ctx call has failed, the outer closure has been
\* left, and the context is installed and not borrowed.
C18_Witness ==
    \E t \in Threads :
        /\ outcome[t] = "BorrowMutError"
        /\ tpc[t] = "outside"
        /\ depth[t] = 0
        /\ CURRENT_CTX[Slot(t)].some
        /\ ~CURRENT_CTX[Slot(t)].borrowed

====
